---- MODULE Spec2Model ----
(***************************************************************************)
(* Habiflow: the Habit Store (src/app/context/HabitContext.tsx) driven by  *)
(* the handlers of the views that call it (TodayView, DayModal,            *)
(* HabitsManager, SyncModal).                                              *)
(*                                                                         *)
(* habits and logs are the two React state arrays of HabitProvider,        *)
(* localStorage the two persisted keys, now the wall clock (in days) from  *)
(* which `today` is formatted on every render.  lastOp and prior are       *)
(* history variables: the last store operation, and the log array as it    *)
(* was before the last run of identical toggles or permanent delete.       *)
(***************************************************************************)
EXTENDS Integers, Sequences, FiniteSets, TLC

VARIABLES habits, logs, localStorage, now, lastOp, prior,
          call, result,
          auth, sessionPassword, remote, pending, sync,
          modal, parked

\* call and result: a pure function of the program applied to arguments,
\* and what it returned
callVars == <<call, result>>

\* auth: the React state of AuthProvider (user, syncStatus, lastSynced,
\* syncError); sessionPassword: the module variable _sessionPassword;
\* remote: the accounts, the session and the habit_sync rows of the remote
\* service; pending: the call of AuthProvider that awaits the remote
\* service; sync: history (the passwords sent to the remote service, the
\* passwords given to encryptData and decryptData, the last write the
\* remote service applied, the last call that ended and how)
syncVars == <<auth, sessionPassword, remote, pending, sync>>

\* modal: the sync dialog App shows while showSync is set (open), the
\* React state of the mounted SyncModal (screen, loading), and whether the
\* handler that awaits the call in pending, and the one that awaits the
\* call in parked, belong to the mounted dialog; parked: a second call of
\* AuthProvider that awaits the remote service
modalVars == <<modal, parked>>

\* the Habit Store and what its views read
storeVars == <<habits, logs, localStorage, now, lastOp, prior>>

\* what the Habit Store and its views do not touch
outsideStore == <<callVars, syncVars, modalVars>>

vars == <<habits, logs, localStorage, now, lastOp, prior, callVars, syncVars,
          modalVars>>

----------------------------------------------------------------------------
(* Bounds *)

\* how many habits created by addHabit may be in the store at once
MaxAdded == 1
\* how many logs the log array may hold
MaxLogs == 2
\* the scores getScoreLevel is applied to lie in -MaxScore..MaxScore
MaxScore == 45
\* how many arguments a function call of the JavaScript engine takes before
\* it throws a RangeError (in units of the model's strings; the engines'
\* limits lie between 65,535 and some 500,000)
MaxSpreadArguments == 2

----------------------------------------------------------------------------
(* Dates: format(new Date(), 'yyyy-MM-dd') and the string order on it *)

\* day n of the model's calendar as the fields of a 'yyyy-MM-dd' string:
\* day 1 is 2023-12-31, day n >= 2 is 2024-01-(n-1)
format(n) == IF n = 1 THEN <<2023, 12, 31>> ELSE <<2024, 1, n - 1>>

\* `a <= b` in place of `a < b`
StrLessOrEqual(a, b) ==
    \/ a[1] < b[1]
    \/ a[1] = b[1] /\ a[2] < b[2]
    \/ a[1] = b[1] /\ a[2] = b[2] /\ a[3] <= b[3]

\* JavaScript `a < b` on two 'yyyy-MM-dd' strings: the fields are fixed
\* width and zero padded, so the string order is the lexicographic order
\* of <<year, month, day>>
StrLess(a, b) ==
    \/ a[1] < b[1]
    \/ a[1] = b[1] /\ a[2] < b[2]
    \/ a[1] = b[1] /\ a[2] = b[2] /\ a[3] < b[3]

today == format(now)

\* the calendar days the clock and the views range over
Days == {1, 2}

\* the dates a calendar cell (DayModal) can be opened for
Dates == { format(n) : n \in Days }

----------------------------------------------------------------------------
(* Habits *)

Habit(id, name, type, points, emoji, status) ==
    [id |-> id, name |-> name, type |-> type, points |-> points,
     emoji |-> emoji, status |-> status]

DEFAULT_HABITS_ALL ==
    << Habit(<<"h", 1>>,  "Exercise",           "good", 20, "run",    "active"),
       Habit(<<"h", 2>>,  "Read",               "good", 15, "books",  "active"),
       Habit(<<"h", 3>>,  "Meditate",           "good", 10, "lotus",  "active"),
       Habit(<<"h", 4>>,  "Drink Water",        "good", 5,  "drop",   "active"),
       Habit(<<"h", 5>>,  "Sleep 8h",           "good", 15, "sleep",  "active"),
       Habit(<<"h", 6>>,  "Smoking",            "bad",  25, "smoke",  "active"),
       Habit(<<"h", 7>>,  "Junk Food",          "bad",  15, "burger", "active"),
       Habit(<<"h", 8>>,  "Social Media Binge", "bad",  10, "phone",  "active"),
       Habit(<<"h", 9>>,  "Skip Workout",       "bad",  10, "couch",  "active"),
       Habit(<<"h", 10>>, "Late Night Screen",  "bad",  10, "moon",   "active") >>

\* the default the model keeps on a first start: Exercise (good, 20)
DefaultKept(h) == h.name \in {"Exercise"}

\* DEFAULT_HABITS restricted to the kept defaults, in source order
DEFAULT_HABITS == SelectSeq(DEFAULT_HABITS_ALL, DefaultKept)

POINTS_OPTIONS == <<5, 10, 15, 20, 25, 30, 40, 50>>

\* what is entered into the add-habit sheet: Smoking (bad, 25 points)
TypedNames == {"Smoking"}

PickedTypes == {"bad"}

PickedPoints == {POINTS_OPTIONS[5]}

Range(s) == { s[i] : i \in 1..Len(s) }

\* crypto.randomUUID(): an identifier no element of `used` carries; the
\* identifiers are interchangeable, so the least unused one stands for all
randomUUID(used) ==
    LET free == { k \in 1..(Cardinality(used) + 1) : <<"u", k>> \notin used }
    IN  <<"u", CHOOSE k \in free : \A j \in free : k <= j>>

----------------------------------------------------------------------------
(* Logs *)

\* the timestamp field (Date.now()) is written by the toggles and read
\* nowhere; the model leaves it out
HabitLog(id, date, habitId, action) ==
    [id |-> id, date |-> date, habitId |-> habitId, action |-> action]

\* prev.find(l => l.date === date && l.habitId === habitId && l.action === action):
\* the index of the first match, 0 when there is none
findLog(prev, habitId, date, action) ==
    LET hits == { i \in 1..Len(prev) :
                    /\ prev[i].date = date
                    /\ prev[i].habitId = habitId
                    /\ prev[i].action = action }
    IN  IF hits = {} THEN 0 ELSE CHOOSE i \in hits : \A j \in hits : i <= j

\* toggleLog without the look-up of an existing log: it always appends
toggleLogAlwaysAppend(prev, habitId, date, action) ==
    Append(prev, HabitLog(randomUUID({ l.id : l \in Range(prev) }),
                          date, habitId, action))

\* toggleLog removing by habit instead of by log id
toggleLogDropHabit(prev, habitId, date, action) ==
    LET existing == findLog(prev, habitId, date, action)
        dropHabit(l) == l.habitId # habitId
    IN  IF existing # 0
        THEN SelectSeq(prev, dropHabit)
        ELSE Append(prev, HabitLog(randomUUID({ l.id : l \in Range(prev) }),
                                   date, habitId, action))

\* the updater both toggles hand to setLogs
toggleLog(prev, habitId, date, action) ==
    LET existing == findLog(prev, habitId, date, action)
        dropId(l) == l.id # prev[existing].id
    IN  IF existing # 0
        THEN SelectSeq(prev, dropId)
        ELSE Append(prev, HabitLog(randomUUID({ l.id : l \in Range(prev) }),
                                   date, habitId, action))

isGoodHabitDone(ls, habitId, date) ==
    \E l \in Range(ls) : l.date = date /\ l.habitId = habitId /\ l.action = "done"

isBadHabitIndulged(ls, habitId, date) ==
    \E l \in Range(ls) : l.date = date /\ l.habitId = habitId /\ l.action = "indulged"

----------------------------------------------------------------------------
(* Scoring *)

\* Math.floor(points * 0.4) for a non-negative integer number of points
FloorFortyPercent(points) == (points * 4) \div 10

\* habitScore with the avoided bonus granted whether or not the date is past
habitScoreBonusAnyDay(habit, dayLogs, isPast) ==
    IF habit.type = "good"
    THEN IF \E l \in Range(dayLogs) : l.habitId = habit.id /\ l.action = "done"
         THEN habit.points ELSE 0
    ELSE IF \E l \in Range(dayLogs) : l.habitId = habit.id /\ l.action = "indulged"
         THEN 0 - habit.points
         ELSE FloorFortyPercent(habit.points)

\* one turn of the loop over habits in calculateDayScore: what it adds to score
habitScore(habit, dayLogs, isPast) ==
    IF habit.type = "good"
    THEN IF \E l \in Range(dayLogs) : l.habitId = habit.id /\ l.action = "done"
         THEN habit.points ELSE 0
    ELSE IF \E l \in Range(dayLogs) : l.habitId = habit.id /\ l.action = "indulged"
         THEN 0 - habit.points
         ELSE IF isPast THEN FloorFortyPercent(habit.points) ELSE 0

\* dayScore without the early return for a day that has no logs
dayScoreNoZeroRule(hs, ls, td, date) ==
    LET onDate(l) == l.date = date
        dayLogs == SelectSeq(ls, onDate)
        isPast == StrLess(date, td)
        score[i \in 0..Len(hs)] ==
            IF i = 0 THEN 0 ELSE score[i - 1] + habitScore(hs[i], dayLogs, isPast)
    IN  score[Len(hs)]

\* dayScore with the loop running over the active habits only
dayScoreActiveOnly(hs, ls, td, date) ==
    LET onDate(l) == l.date = date
        dayLogs == SelectSeq(ls, onDate)
        isPast == StrLess(date, td)
        shown == SelectSeq(hs, LAMBDA h : h.status = "active")
        score[i \in 0..Len(shown)] ==
            IF i = 0 THEN 0
            ELSE score[i - 1] + habitScore(shown[i], dayLogs, isPast)
    IN  IF Len(dayLogs) = 0 THEN 0 ELSE score[Len(shown)]

\* calculateDayScore over given habits, logs and today
dayScore(hs, ls, td, date) ==
    LET onDate(l) == l.date = date
        dayLogs == SelectSeq(ls, onDate)
        isPast == StrLess(date, td)
        score[i \in 0..Len(hs)] ==
            IF i = 0 THEN 0 ELSE score[i - 1] + habitScore(hs[i], dayLogs, isPast)
    IN  IF Len(dayLogs) = 0 THEN 0 ELSE score[Len(hs)]

calculateDayScore(date) == dayScore(habits, logs, today, date)

\* totalScore adding a day's score once per log instead of once per date
totalScorePerLog(hs, ls, td) ==
    LET sum[i \in 0..Len(ls)] ==
            IF i = 0 THEN 0 ELSE sum[i - 1] + dayScore(hs, ls, td, ls[i].date)
    IN  sum[Len(ls)]

\* getTotalScore over given habits, logs and today: the dates are collected
\* into a Set, which keeps each date once in the order of its first log, and
\* the day scores are added up in that order
totalScore(hs, ls, td) ==
    LET allDates[i \in 0..Len(ls)] ==
            IF i = 0 THEN <<>>
            ELSE IF ls[i].date \in Range(allDates[i - 1])
                 THEN allDates[i - 1]
                 ELSE Append(allDates[i - 1], ls[i].date)
        dates == allDates[Len(ls)]
        total[i \in 0..Len(dates)] ==
            IF i = 0 THEN 0 ELSE total[i - 1] + dayScore(hs, ls, td, dates[i])
    IN  total[Len(dates)]

getTotalScore == totalScore(habits, logs, today)

\* getScoreLevel with >= where the code compares with > -10
getScoreLevelInclusive(score) ==
    IF score >= 40 THEN "excellent"
    ELSE IF score >= 20 THEN "great"
    ELSE IF score >= 10 THEN "good"
    ELSE IF score > 0 THEN "ok"
    ELSE IF score = 0 THEN "neutral"
    ELSE IF score >= -10 THEN "slightly-bad"
    ELSE IF score > -20 THEN "bad"
    ELSE "very-bad"

\* getScoreLevel: the first comparison that holds decides
getScoreLevel(score) ==
    IF score >= 40 THEN "excellent"
    ELSE IF score >= 20 THEN "great"
    ELSE IF score >= 10 THEN "good"
    ELSE IF score > 0 THEN "ok"
    ELSE IF score = 0 THEN "neutral"
    ELSE IF score > -10 THEN "slightly-bad"
    ELSE IF score > -20 THEN "bad"
    ELSE "very-bad"

\* dayDetails counting the active habits only
dayDetailsActiveOnly(hs, ls, td, date) ==
    LET onDate(l) == l.date = date
        dayLogs == SelectSeq(ls, onDate)
        isPast == StrLess(date, td)
        goodHabits == SelectSeq(hs, LAMBDA h : h.type = "good" /\ h.status = "active")
        badHabits == SelectSeq(hs, LAMBDA h : h.type = "bad" /\ h.status = "active")
        done(h) == \E l \in Range(dayLogs) : l.habitId = h.id /\ l.action = "done"
        indulged(h) ==
            \E l \in Range(dayLogs) : l.habitId = h.id /\ l.action = "indulged"
        avoided(h) == ~indulged(h)
    IN  [goodDone    |-> Len(SelectSeq(goodHabits, done)),
         badIndulged |-> Len(SelectSeq(badHabits, indulged)),
         badAvoided  |-> IF isPast THEN Len(SelectSeq(badHabits, avoided)) ELSE 0,
         score       |-> dayScore(hs, ls, td, date)]

\* getDayDetails over given habits, logs and today
dayDetails(hs, ls, td, date) ==
    LET onDate(l) == l.date = date
        dayLogs == SelectSeq(ls, onDate)
        isPast == StrLess(date, td)
        goodHabits == SelectSeq(hs, LAMBDA h : h.type = "good" /\ h.status # "archived")
        badHabits == SelectSeq(hs, LAMBDA h : h.type = "bad" /\ h.status # "archived")
        done(h) == \E l \in Range(dayLogs) : l.habitId = h.id /\ l.action = "done"
        indulged(h) ==
            \E l \in Range(dayLogs) : l.habitId = h.id /\ l.action = "indulged"
        avoided(h) == ~indulged(h)
    IN  [goodDone    |-> Len(SelectSeq(goodHabits, done)),
         badIndulged |-> Len(SelectSeq(badHabits, indulged)),
         badAvoided  |-> IF isPast THEN Len(SelectSeq(badHabits, avoided)) ELSE 0,
         score       |-> dayScore(hs, ls, td, date)]

getDayDetails(date) == dayDetails(habits, logs, today, date)

----------------------------------------------------------------------------
(* Habit collection updaters *)

activeHabits(hs) == SelectSeq(hs, LAMBDA h : h.status = "active")

archivedHabits(hs) == SelectSeq(hs, LAMBDA h : h.status = "archived")

\* migrateHabits setting every status to active
migrateHabitsAllActive(raw) ==
    [i \in 1..Len(raw) |->
        Habit(raw[i].id, raw[i].name, raw[i].type, raw[i].points, raw[i].emoji,
              "active")]

\* raw.map(h => ({ ...h, status: h.status ?? 'active' })): a record without a
\* status field is a legacy habit
migrateHabits(raw) ==
    [i \in 1..Len(raw) |->
        Habit(raw[i].id, raw[i].name, raw[i].type, raw[i].points, raw[i].emoji,
              IF "status" \in DOMAIN raw[i] THEN raw[i].status ELSE "active")]

\* the updater of addHabit
addHabitTo(prev, habit) ==
    Append(prev, Habit(randomUUID({ h.id : h \in Range(prev) }), habit.name,
                       habit.type, habit.points, habit.emoji, "active"))

\* the updater of deleteHabit
softDeleteIn(prev, id) ==
    [i \in 1..Len(prev) |->
        IF prev[i].id = id THEN [prev[i] EXCEPT !.status = "deleted"] ELSE prev[i]]

\* archiveIn without the comparison of ids: every habit is archived
archiveInAll(prev, id) ==
    [i \in 1..Len(prev) |-> [prev[i] EXCEPT !.status = "archived"]]

\* the updater of archiveHabit
archiveIn(prev, id) ==
    [i \in 1..Len(prev) |->
        IF prev[i].id = id THEN [prev[i] EXCEPT !.status = "archived"] ELSE prev[i]]

\* the updater of unarchiveHabit
unarchiveIn(prev, id) ==
    [i \in 1..Len(prev) |->
        IF prev[i].id = id THEN [prev[i] EXCEPT !.status = "active"] ELSE prev[i]]

\* the two updaters of permanentlyDeleteHabit
removeHabitFrom(prev, id) == SelectSeq(prev, LAMBDA h : h.id # id)

\* permanentlyDeleteHabit without the cascade to the logs
removeLogsOfNone(prev, id) == prev

removeLogsOf(prev, id) == SelectSeq(prev, LAMBDA l : l.habitId # id)

----------------------------------------------------------------------------
(* Persistence *)

\* JSON.stringify / JSON.parse of a habit or log array
JSONstringify(value) == <<"json", value>>

JSONparse(text) == text[2]

\* the two useEffect hooks that run after a render with new habits / logs
persisted(hs, ls) ==
    [ht_habits_v3 |-> JSONstringify(hs), ht_logs_v2 |-> JSONstringify(ls)]

\* a stored string that is no JSON text: JSON.parse throws a SyntaxError
NotJSON == <<"text", "{">>

parses(text) == text[1] = "json"

\* the state initialisers of HabitProvider: getItem gives null for a key
\* that is not stored, and the catch block takes what JSON.parse throws
loadHabits(storage) ==
    IF storage.ht_habits_v3 # "null"
    THEN IF parses(storage.ht_habits_v3)
         THEN migrateHabits(JSONparse(storage.ht_habits_v3))
         ELSE DEFAULT_HABITS
    ELSE DEFAULT_HABITS

loadLogs(storage) ==
    IF storage.ht_logs_v2 # "null"
    THEN IF parses(storage.ht_logs_v2)
         THEN JSONparse(storage.ht_logs_v2)
         ELSE <<>>
    ELSE <<>>

----------------------------------------------------------------------------
(* Store operations: each is one event handler's batch of state updates,  *)
(* followed by the render and its persistence effects                     *)

None == <<>>

\* a call of a function: its name and arguments; what it returned or threw
Call(fn, args) == [fn |-> fn, args |-> args]
Returned(value) == [returned |-> value]
Thrown(error) == [thrown |-> error]
NoCall == Call("none", <<>>)
NoResult == [pending |-> TRUE]

\* prior.n counts the identical toggles in a row (0 after any other
\* operation); prior.logs is the log array before the first of them
NoPrior == [n |-> 0, logs |-> <<>>]

\* the status the habit `id` has in hs, None when hs holds no such habit
statusOf(hs, id) ==
    IF \E h \in Range(hs) : h.id = id
    THEN (CHOOSE h \in Range(hs) : h.id = id).status
    ELSE None

\* lastOp: the operation, the habit it names with the status that habit had
\* before, and the date it names
Op(name, id, date) ==
    [op |-> name, id |-> id, date |-> date, was |-> statusOf(habits, id)]

\* a toggle that repeats the previous operation keeps the log array from
\* before the first of the two
toggledTwice(op) == lastOp = op /\ prior.n = 1

toggleGoodHabit(habitId, date) ==
    LET op == Op("toggleGoodHabit", habitId, date)
    IN  /\ logs' = toggleLog(logs, habitId, date, "done")
        /\ Len(logs') <= MaxLogs
        /\ localStorage' = persisted(habits, logs')
        /\ prior' = IF toggledTwice(op)
                    THEN [n |-> 2, logs |-> prior.logs]
                    ELSE [n |-> 1, logs |-> logs]
        /\ lastOp' = op
        /\ UNCHANGED <<habits, now>>

toggleBadHabit(habitId, date) ==
    LET op == Op("toggleBadHabit", habitId, date)
    IN  /\ logs' = toggleLog(logs, habitId, date, "indulged")
        /\ Len(logs') <= MaxLogs
        /\ localStorage' = persisted(habits, logs')
        /\ prior' = IF toggledTwice(op)
                    THEN [n |-> 2, logs |-> prior.logs]
                    ELSE [n |-> 1, logs |-> logs]
        /\ lastOp' = op
        /\ UNCHANGED <<habits, now>>

addHabit(habit) ==
    /\ habits' = addHabitTo(habits, habit)
    /\ localStorage' = persisted(habits', logs)
    /\ lastOp' = Op("addHabit", habits'[Len(habits')].id, None)
    /\ prior' = NoPrior
    /\ UNCHANGED <<logs, now>>

deleteHabit(id) ==
    /\ habits' = softDeleteIn(habits, id)
    /\ localStorage' = persisted(habits', logs)
    /\ lastOp' = Op("deleteHabit", id, None)
    /\ prior' = NoPrior
    /\ UNCHANGED <<logs, now>>

archiveHabit(id) ==
    /\ habits' = archiveIn(habits, id)
    /\ localStorage' = persisted(habits', logs)
    /\ lastOp' = Op("archiveHabit", id, None)
    /\ prior' = NoPrior
    /\ UNCHANGED <<logs, now>>

unarchiveHabit(id) ==
    /\ habits' = unarchiveIn(habits, id)
    /\ localStorage' = persisted(habits', logs)
    /\ lastOp' = Op("unarchiveHabit", id, None)
    /\ prior' = NoPrior
    /\ UNCHANGED <<logs, now>>

permanentlyDeleteHabit(id) ==
    /\ habits' = removeHabitFrom(habits, id)
    /\ logs' = removeLogsOf(logs, id)
    /\ localStorage' = persisted(habits', logs')
    /\ lastOp' = Op("permanentlyDeleteHabit", id, None)
    /\ prior' = [n |-> 0, logs |-> logs]
    /\ UNCHANGED now

\* importData that keeps the logs there are and adds the new ones
importDataMerging(newHabits, newLogs) ==
    /\ habits' = migrateHabits(newHabits)
    /\ logs' = logs \o newLogs
    /\ localStorage' = persisted(habits', logs')
    /\ lastOp' = Op("importData", None, None)
    /\ prior' = NoPrior
    /\ UNCHANGED now

importData(newHabits, newLogs) ==
    /\ habits' = migrateHabits(newHabits)
    /\ logs' = newLogs
    /\ localStorage' = persisted(habits', logs')
    /\ lastOp' = Op("importData", None, None)
    /\ prior' = NoPrior
    /\ UNCHANGED now

----------------------------------------------------------------------------
(* The handlers that call the store *)

\* String.prototype.toLowerCase on the names the model uses
toLowerCase(name) ==
    CASE name = "Exercise" -> "exercise"
      [] name = "Smoking"  -> "smoking"
      [] OTHER             -> name

\* AddHabitSheet: the existing habits (of any status) with the typed name;
\* `conflict` is the first of them
conflicts(name) ==
    SelectSeq(habits, LAMBDA h : toLowerCase(h.name) = toLowerCase(name))

\* the emoji setType leaves selected
typeEmoji(type) == IF type = "good" THEN "run" ELSE "smoke"

addedHabits == SelectSeq(habits, LAMBDA h : h.id[1] = "u")

\* AddHabitSheet.handleSubmit
AddHabitSheet_handleSubmit ==
    \E name \in TypedNames, type \in PickedTypes, points \in PickedPoints :
        /\ Len(addedHabits) < MaxAdded
        /\ IF Len(conflicts(name)) = 0 THEN TRUE
           ELSE conflicts(name)[1].status # "active"
        /\ addHabit([name |-> name, type |-> type, points |-> points,
                     emoji |-> typeEmoji(type)])

\* TodayView.handleGoodToggle (date = today) and the good-habit button of
\* DayModal, which is clickable for an active habit on a date that is not
\* in the future
GoodHabitClick ==
    \E h \in Range(habits), date \in Dates :
        /\ h.type = "good"
        /\ h.status = "active"
        /\ ~StrLess(today, date)
        /\ toggleGoodHabit(h.id, date)

\* TodayView.handleBadToggle and the bad-habit button of DayModal
BadHabitClick ==
    \E h \in Range(habits), date \in Dates :
        /\ h.type = "bad"
        /\ h.status = "active"
        /\ ~StrLess(today, date)
        /\ toggleBadHabit(h.id, date)

\* handleArchive offered on every row, whatever its status
HabitRow_handleArchiveAnyRow ==
    \E h \in Range(habits) : archiveHabit(h.id)

\* HabitRow.handleArchive: the menu of an active row
HabitRow_handleArchive ==
    \E h \in Range(habits) :
        /\ h.status = "active"
        /\ archiveHabit(h.id)

\* HabitRow.handleDelete then confirmAction: the menu of an active row and
\* the trash button of an archived row
HabitRow_confirmDelete ==
    \E h \in Range(habits) :
        /\ h.status \in {"active", "archived"}
        /\ deleteHabit(h.id)

\* HabitRow.handleUnarchive on an archived row, the restore button of a
\* deleted row, and AddHabitSheet.handleRestore for an archived or deleted
\* conflict
HabitRow_handleUnarchive ==
    \E h \in Range(habits) :
        /\ h.status \in {"archived", "deleted"}
        /\ unarchiveHabit(h.id)

\* HabitRow.handlePermanent then confirmAction: a deleted row
HabitRow_confirmPermanent ==
    \E h \in Range(habits) :
        /\ h.status = "deleted"
        /\ permanentlyDeleteHabit(h.id)

\* what a pull or sign-in can hand to importData: snapshots exported by
\* other installs of the app.  The first was exported before habits had a
\* status, with Exercise done on day 1; in the second Exercise was
\* permanently deleted and an added Smoking archived after an indulgence
\* on day 1.
RemoteSnapshots ==
    { [habits |-> << [id |-> <<"h", 1>>, name |-> "Exercise", type |-> "good",
                      points |-> 20, emoji |-> "run"] >>,
       logs   |-> << HabitLog(<<"u", 1>>, format(1), <<"h", 1>>, "done") >>],
      [habits |-> << Habit(<<"u", 1>>, "Smoking", "bad", 25, "smoke", "archived") >>,
       logs   |-> << HabitLog(<<"u", 1>>, format(1), <<"u", 1>>, "indulged") >>] }

exportData == [habits |-> habits, logs |-> logs]

\* SyncModal.handleSignIn / handlePull when the remote result is not null:
\* the snapshot of another install, or the one this install pushed last
\* when nothing was done since
SyncModal_import ==
    \E snapshot \in RemoteSnapshots \cup {exportData} :
        importData(snapshot.habits, snapshot.logs)

\* the page is loaded again: HabitProvider's initialisers read localStorage
Reload ==
    /\ habits' = loadHabits(localStorage)
    /\ logs' = loadLogs(localStorage)
    /\ localStorage' = persisted(habits', logs')
    /\ UNCHANGED <<now, lastOp, prior>>

\* the local calendar date changes (midnight, or a change of time zone) and
\* the provider renders again
DateChange ==
    /\ now' \in Days \ {now}
    /\ UNCHANGED <<habits, logs, localStorage, lastOp, prior>>

----------------------------------------------------------------------------

EmptyStorage == [ht_habits_v3 |-> "null", ht_logs_v2 |-> "null"]

\* App.tsx: showSync starts false, and SyncModal is rendered only while it is
\* set, so a dialog that is closed has no state
Unmounted == [open |-> FALSE, screen |-> "home", loading |-> FALSE,
              mine |-> FALSE, parkedMine |-> FALSE]

Init ==
    /\ now \in Days
    /\ habits = loadHabits(EmptyStorage)
    /\ logs = loadLogs(EmptyStorage)
    /\ localStorage = persisted(habits, logs)
    /\ lastOp = Op("load", None, None)
    /\ prior = NoPrior
    /\ call = NoCall
    /\ result = NoResult
    /\ auth = [user |-> None, syncStatus |-> "idle", lastSynced |-> "null",
               syncError |-> "null"]
    /\ sessionPassword = None
    /\ remote = [accounts |-> {}, session |-> None, rows |-> {}]
    /\ pending = NoCall
    /\ sync = [sent |-> {}, keyed |-> {}, lastWrite |-> [by |-> "none"],
               ended |-> NoCall, cached |-> [by |-> "none"]]
    /\ modal = Unmounted
    /\ parked = NoCall

Next ==
    \/ AddHabitSheet_handleSubmit /\ UNCHANGED outsideStore
    \/ GoodHabitClick /\ UNCHANGED outsideStore
    \/ BadHabitClick /\ UNCHANGED outsideStore
    \/ HabitRow_handleArchive /\ UNCHANGED outsideStore
    \/ HabitRow_confirmDelete /\ UNCHANGED outsideStore
    \/ HabitRow_handleUnarchive /\ UNCHANGED outsideStore
    \/ HabitRow_confirmPermanent /\ UNCHANGED outsideStore
    \/ SyncModal_import /\ UNCHANGED outsideStore
    \/ Reload /\ UNCHANGED outsideStore
    \/ DateChange /\ UNCHANGED outsideStore

Spec == Init /\ [][Next]_vars

----------------------------------------------------------------------------
(* lib/crypto.ts.  A string is a sequence of characters, a buffer a        *)
(* sequence of units; PBKDF2 and AES-GCM are the ideal functions: keys     *)
(* differ when a parameter differs, and a ciphertext opens only under the  *)
(* key and iv that made it                                                 *)

LoneSurrogates == {<<"U+D800">>, <<"U+D801">>}

\* new TextEncoder().encode(str): UTF-8, with U+FFFD for a lone surrogate
TextEncoder_encode(str) ==
    [i \in 1..Len(str) |->
        <<"utf8", IF str[i] \in LoneSurrogates THEN <<"U+FFFD">> ELSE str[i]>>]

\* new TextDecoder().decode(buf)
TextDecoder_decode(buf) == [i \in 1..Len(buf) |-> buf[i][2]]

\* btoa(String.fromCharCode(...new Uint8Array(buf))): every unit of buf is
\* an argument of the one call of String.fromCharCode
b64encode(buf) ==
    IF Len(buf) > MaxSpreadArguments
    THEN Thrown("RangeError")
    ELSE Returned([base64 |-> buf, spelling |-> "btoa"])

\* Uint8Array.from(atob(str), ...): atob throws on what is not base64, and
\* otherwise skips white space and ignores missing padding and the unused
\* bits of the last character, so that other spellings than btoa's decode
\* to the same buffer
b64decode(str) ==
    IF "base64" \in DOMAIN str
    THEN Returned(str.base64)
    ELSE Thrown("InvalidCharacterError")

PBKDF2_ITERATIONS == 150000

\* deriveKey: importKey of the encoded password, then PBKDF2 to an
\* AES-GCM key of 256 bits
deriveKey(password, salt) ==
    [name |-> "AES-GCM", length |-> 256,
     from |-> [name |-> "PBKDF2", hash |-> "SHA-256",
               iterations |-> PBKDF2_ITERATIONS, salt |-> salt,
               keyMaterial |-> TextEncoder_encode(password)]]

\* crypto.subtle.encrypt({ name: 'AES-GCM', iv }, key, data): one unit for
\* each unit of data, then the tag
AESGCM_encrypt(iv, key, data) ==
    [i \in 1..(Len(data) + 1) |->
        IF i <= Len(data)
        THEN <<"sealed", key, iv, data, i>>
        ELSE <<"tag", key, iv, data>>]

\* crypto.subtle.decrypt({ name: 'AES-GCM', iv }, key, data): the data that
\* was encrypted when the tag verifies, an OperationError when not
AESGCM_decrypt(iv, key, data) ==
    IF /\ Len(data) > 0
       /\ data[Len(data)][1] = "tag"
       /\ data = AESGCM_encrypt(iv, key, data[Len(data)][4])
    THEN Returned(data[Len(data)][4])
    ELSE Thrown("OperationError")

\* encryptData, with the salt and the iv getRandomValues filled
encryptData(plaintext, password, salt, iv) ==
    LET key == deriveKey(password, salt)
        ciphertextBuf == AESGCM_encrypt(iv, key, TextEncoder_encode(plaintext))
        ciphertext == b64encode(ciphertextBuf)
    IN  IF "thrown" \in DOMAIN ciphertext THEN ciphertext
        ELSE Returned([ciphertext |-> ciphertext.returned,
                       salt |-> b64encode(salt).returned,
                       iv |-> b64encode(iv).returned])

\* decryptData catching what the decryption throws and returning the empty
\* string
decryptDataCatching(bundle, password) ==
    LET salt == b64decode(bundle.salt)
        iv == b64decode(bundle.iv)
        ciphertextBytes == b64decode(bundle.ciphertext)
    IN  IF "thrown" \in DOMAIN salt THEN salt
        ELSE IF "thrown" \in DOMAIN iv THEN iv
        ELSE IF "thrown" \in DOMAIN ciphertextBytes THEN ciphertextBytes
        ELSE LET key == deriveKey(password, salt.returned)
                 plaintextBuf ==
                     AESGCM_decrypt(iv.returned, key, ciphertextBytes.returned)
             IN  IF "thrown" \in DOMAIN plaintextBuf THEN Returned(<<>>)
                 ELSE Returned(TextDecoder_decode(plaintextBuf.returned))

\* decryptData
decryptData(bundle, password) ==
    LET salt == b64decode(bundle.salt)
        iv == b64decode(bundle.iv)
        ciphertextBytes == b64decode(bundle.ciphertext)
    IN  IF "thrown" \in DOMAIN salt THEN salt
        ELSE IF "thrown" \in DOMAIN iv THEN iv
        ELSE IF "thrown" \in DOMAIN ciphertextBytes THEN ciphertextBytes
        ELSE LET key == deriveKey(password, salt.returned)
                 plaintextBuf ==
                     AESGCM_decrypt(iv.returned, key, ciphertextBytes.returned)
             IN  IF "thrown" \in DOMAIN plaintextBuf THEN plaintextBuf
                 ELSE Returned(TextDecoder_decode(plaintextBuf.returned))

----------------------------------------------------------------------------
(* The pure functions of the program applied to arguments *)

Scores == (0 - MaxScore)..MaxScore

Call_getScoreLevel ==
    \E score \in Scores :
        /\ call' = Call("getScoreLevel", <<score>>)
        /\ result' = Returned(getScoreLevel(score))
        /\ UNCHANGED <<storeVars, syncVars, modalVars>>

\* the characters of the strings: a letter and a lone surrogate
Chars == {<<"a">>, <<"U+D800">>}

\* the plaintexts: up to one character per argument the engine takes
Plaintexts == UNION { [1..k -> Chars] : k \in 0..MaxSpreadArguments }

\* the passwords: two of letters and two of one lone surrogate each
Passwords == { <<<<"p">>>>, <<<<"q">>>>, <<<<"U+D800">>>>, <<<<"U+D801">>>> }

\* what crypto.getRandomValues fills the salt and the iv with
RandomValues == { <<<<"random", 1>>>>, <<<<"random", 2>>>> }

Call_encryptData ==
    \E plaintext \in Plaintexts, password \in Passwords,
       salt \in RandomValues, iv \in RandomValues :
        /\ call' = [fn |-> "encryptData", args |-> <<plaintext, password>>,
                    random |-> [salt |-> salt, iv |-> iv]]
        /\ result' = encryptData(plaintext, password, salt, iv)
        /\ UNCHANGED <<storeVars, syncVars, modalVars>>

\* what may happen to a field of a bundle before it is decrypted: it is
\* spelt another way that decodes to the same buffer, it decodes to another
\* buffer, or it is no base64 any more
Edits == { [field |-> f, kind |-> k] :
             f \in {"ciphertext", "salt", "iv"},
             k \in {"respelt", "altered", "garbled"} }
           \cup { [field |-> "none", kind |-> "none"] }

edited(bundle, edit) ==
    CASE edit.kind = "none" -> bundle
      [] edit.kind = "respelt" ->
            [bundle EXCEPT ![edit.field].spelling = "other"]
      [] edit.kind = "altered" ->
            [bundle EXCEPT ![edit.field].base64 =
                [@ EXCEPT ![Len(@)] = <<"flipped", @>>]]
      [] edit.kind = "garbled" ->
            [bundle EXCEPT ![edit.field] = [garbled |-> TRUE]]

\* decryptData applied to the bundle encryptData has just returned, or to
\* an edited copy of it
Call_decryptData ==
    /\ call.fn = "encryptData"
    /\ "returned" \in DOMAIN result
    /\ \E edit \in Edits, password \in Passwords :
          /\ call' = [fn |-> "decryptData",
                      args |-> <<edited(result.returned, edit), password>>,
                      sealed |-> call.args, edit |-> edit]
          /\ result' = decryptData(edited(result.returned, edit), password)
    /\ UNCHANGED <<storeVars, syncVars, modalVars>>

\* what the two keys of localStorage hold when the provider mounts:
\* nothing, a string that does not parse, or what an earlier run persisted
StoredValues(key) ==
    LET earlier == CHOOSE snapshot \in RemoteSnapshots : snapshot.logs # <<>>
    IN  <<"null", NotJSON, persisted(earlier.habits, earlier.logs)[key]>>

Storage(i, j) ==
    [ht_habits_v3 |-> StoredValues("ht_habits_v3")[i],
     ht_logs_v2 |-> StoredValues("ht_logs_v2")[j]]

Call_HabitProvider ==
    \E i \in 1..3, j \in 1..3 : LET storage == Storage(i, j) IN
        /\ call' = Call("HabitProvider", <<storage>>)
        /\ result' = Returned([habits |-> loadHabits(storage),
                               logs |-> loadLogs(storage)])
        /\ UNCHANGED <<storeVars, syncVars, modalVars>>

CallInit == Init

CallNext ==
    \/ Call_HabitProvider
    \/ Call_getScoreLevel
    \/ Call_encryptData
    \/ Call_decryptData

CallSpec == CallInit /\ [][CallNext]_vars

----------------------------------------------------------------------------
(* AuthProvider (context/AuthContext.tsx) and the handlers of SyncModal.   *)
(* A call is split where it awaits the remote service: the handler starts  *)
(* it, and a later step takes the response and runs the call to its end.   *)

\* JSON.stringify({ habits, logs }) as a string of the crypto module: the
\* whole JSON text is its one character
payloadOfHabitsOnly(hs, ls) == <<JSONstringify([habits |-> hs, logs |-> <<>>])>>

payloadOf(hs, ls) == <<JSONstringify([habits |-> hs, logs |-> ls])>>

\* JSON.parse(plaintext) as { habits, logs }
parsePayload(plaintext) == JSONparse(plaintext[1])

\* the row signUp inserts and pushData upserts
SyncRow(userId, encrypted, at) ==
    [user_id |-> userId, ciphertext |-> encrypted.ciphertext,
     salt |-> encrypted.salt, iv |-> encrypted.iv, updated_at |-> at]

rowsOf(rows, userId) == { r \in rows : r.user_id = userId }

\* from('habit_sync').insert(row): user_id is UNIQUE
insertRow(rows, row) ==
    IF rowsOf(rows, row.user_id) = {} THEN rows \cup {row} ELSE rows

\* upsert that adds a row beside the one the account has
upsertRowAdding(rows, row) == rows \cup {row}

\* from('habit_sync').upsert(row, { onConflict: 'user_id' })
upsertRow(rows, row) == (rows \ rowsOf(rows, row.user_id)) \cup {row}

\* from('habit_sync').select('ciphertext, salt, iv').eq('user_id', id)
\* .single(): the row when there is exactly one, an error when not
selectSingle(rows, userId) ==
    IF Cardinality(rowsOf(rows, userId)) = 1
    THEN [data |-> LET r == CHOOSE r \in rowsOf(rows, userId) : TRUE
                   IN  [ciphertext |-> r.ciphertext, salt |-> r.salt, iv |-> r.iv]]
    ELSE [error |-> "JSON object requested, multiple (or no) rows returned"]

\* the one account of the model
Email == "user@example.com"
UserId == <<"uid", 1>>
SyncPasswords == { <<<<"p">>>>, <<<<"q">>>> }

\* what crypto.getRandomValues gives a call of encryptData
Draws == { random \in [salt : RandomValues, iv : RandomValues] :
             random.salt # random.iv }

Account(password) == [email |-> Email, password |-> password, id |-> UserId]

\* the remote service accepts a request on a row of userId: it arrives,
\* and the session is the one of userId (row level security)
accepted(delivered, userId) == delivered /\ remote.session = userId

\* a call starts: setSyncStatus('syncing'); setSyncError(null)
Syncing == [auth EXCEPT !.syncStatus = "syncing", !.syncError = "null"]

\* the catch block of a call: the error is recorded and thrown on
Caught(fn, message) ==
    /\ auth' = [auth EXCEPT !.syncStatus = "error", !.syncError = message]
    /\ pending' = NoCall
    /\ sync' = [sync EXCEPT !.ended = [fn |-> fn, outcome |-> "threw"]]

\* the call ends without an error
Succeeded(fn) == [auth EXCEPT !.syncStatus = "success", !.lastSynced = fn]

\* SyncModal.handleSignUp: signUp starts and sends auth.signUp
SyncModal_handleSignUp ==
    /\ pending = NoCall
    /\ auth.user = None
    /\ \E password \in SyncPasswords :
          /\ pending' = [fn |-> "signUp", pc |-> "auth", password |-> password,
                         habits |-> habits, logs |-> logs]
          /\ sync' = [sync EXCEPT !.sent = @ \cup {password}, !.ended = NoCall]
    /\ auth' = Syncing
    /\ UNCHANGED <<storeVars, callVars, sessionPassword, remote>>

\* signUp after auth.signUp: the error is thrown; with a user the session
\* password is set and the encrypted row is sent for insertion.  The new
\* account is signed in unless the service asks to confirm the email first
AuthProvider_signUp_auth ==
    /\ pending.fn = "signUp"
    /\ pending.pc = "auth"
    /\ UNCHANGED <<storeVars, callVars>>
    /\ \/ /\ Caught("signUp", "User already registered")
          /\ UNCHANGED <<sessionPassword, remote>>
       \/ /\ remote.accounts = {}
          /\ sessionPassword' = pending.password
          /\ \E confirmed \in BOOLEAN, random \in Draws :
               LET encrypted ==
                       encryptData(payloadOf(pending.habits, pending.logs),
                                   pending.password, random.salt, random.iv)
               IN  /\ remote' = [remote EXCEPT
                                   !.accounts = {Account(pending.password)},
                                   !.session = IF confirmed THEN UserId ELSE @]
                   /\ IF "thrown" \in DOMAIN encrypted
                      THEN /\ auth' = [auth EXCEPT
                                         !.user = IF confirmed THEN UserId ELSE @,
                                         !.syncStatus = "error",
                                         !.syncError = encrypted.thrown]
                           /\ pending' = NoCall
                           /\ sync' = [sync EXCEPT
                                         !.keyed = @ \cup {pending.password},
                                         !.ended = [fn |-> "signUp",
                                                    outcome |-> "threw"],
                                         !.cached = [by |-> "signUp",
                                                     password |-> pending.password,
                                                     ok |-> FALSE]]
                      ELSE /\ auth' = [auth EXCEPT
                                         !.user = IF confirmed THEN UserId ELSE @]
                           /\ pending' =
                                [fn |-> "signUp", pc |-> "row",
                                 row |-> SyncRow(UserId, encrypted.returned, today),
                                 snapshot |-> [habits |-> pending.habits,
                                               logs |-> pending.logs]]
                           /\ sync' = [sync EXCEPT
                                         !.keyed = @ \cup {pending.password},
                                         !.cached = [by |-> "signUp",
                                                     password |-> pending.password,
                                                     ok |-> TRUE]]

\* signUp after the insert, whose result is not looked at
AuthProvider_signUp_row ==
    /\ pending.fn = "signUp"
    /\ pending.pc = "row"
    /\ \E delivered \in BOOLEAN :
         LET inserted == /\ accepted(delivered, pending.row.user_id)
                         /\ rowsOf(remote.rows, pending.row.user_id) = {}
         IN  /\ remote' = [remote EXCEPT !.rows =
                             IF inserted THEN insertRow(@, pending.row) ELSE @]
             /\ sync' = [sync EXCEPT
                           !.lastWrite =
                               IF inserted
                               THEN [by |-> "signUp", row |-> pending.row,
                                     snapshot |-> pending.snapshot,
                                     replaced |-> FALSE]
                               ELSE @,
                           !.ended = [fn |-> "signUp", outcome |-> "void",
                                      wrote |-> inserted,
                                      delivered |-> delivered]]
    /\ auth' = Succeeded("signUp")
    /\ pending' = NoCall
    /\ UNCHANGED <<storeVars, callVars, sessionPassword>>

\* SyncModal.handleSignIn: signIn starts and sends auth.signInWithPassword
SyncModal_handleSignIn ==
    /\ pending = NoCall
    /\ auth.user = None
    /\ \E password \in SyncPasswords :
          /\ pending' = [fn |-> "signIn", pc |-> "auth", password |-> password]
          /\ sync' = [sync EXCEPT !.sent = @ \cup {password}, !.ended = NoCall]
    /\ auth' = Syncing
    /\ UNCHANGED <<storeVars, callVars, sessionPassword, remote>>

\* signIn after auth.signInWithPassword: the error is thrown; with a session
\* the session password is set and the row of the user is asked for
AuthProvider_signIn_auth ==
    /\ pending.fn = "signIn"
    /\ pending.pc = "auth"
    /\ UNCHANGED <<storeVars, callVars>>
    /\ \E delivered \in BOOLEAN :
         IF delivered /\ Account(pending.password) \in remote.accounts
         THEN /\ remote' = [remote EXCEPT !.session = UserId]
              /\ auth' = [auth EXCEPT !.user = UserId]
              /\ sessionPassword' = pending.password
              /\ pending' = [pending EXCEPT !.pc = "row"]
              /\ sync' = [sync EXCEPT !.cached = [by |-> "signIn",
                                                  password |-> pending.password,
                                                  ok |-> TRUE]]
         ELSE /\ Caught("signIn", "Invalid login credentials")
              /\ UNCHANGED <<sessionPassword, remote>>

\* err.message of what decryptData throws.  The message of the
\* OperationError of crypto.subtle.decrypt is the engine's: the text of the
\* Web Cryptography standard in some, empty in others
OperationSpecific == "The operation failed for an operation-specific reason"

messagesOf(error) ==
    IF error = "OperationError" THEN {OperationSpecific, ""} ELSE {error}

\* the message of the catch blocks of signIn and pullData
caughtMessage(fn, message) ==
    IF message = OperationSpecific
    THEN IF fn = "signIn"
         THEN "Wrong password: data decryption failed."
         ELSE "Wrong password: could not decrypt data."
    ELSE message

\* what a call that read the remote snapshot does with it: the call ends
\* with success and returns it, and the handler of SyncModal imports it
Pulled(fn, password, data) ==
    LET decrypted == decryptData(data, password)
    IN  IF "thrown" \in DOMAIN decrypted
        THEN /\ \E message \in messagesOf(decrypted.thrown) :
                  auth' = [auth EXCEPT !.syncStatus = "error",
                                       !.syncError = caughtMessage(fn, message)]
             /\ sync' = [sync EXCEPT
                           !.keyed = @ \cup {password},
                           !.ended = [fn |-> fn, outcome |-> "threw",
                                      undecrypted |-> TRUE],
                           !.cached = IF fn = "signIn"
                                      THEN [@ EXCEPT !.ok = FALSE] ELSE @]
             /\ UNCHANGED storeVars
        ELSE /\ auth' = Succeeded(fn)
             /\ sync' = [sync EXCEPT
                           !.keyed = @ \cup {password},
                           !.ended = [fn |-> fn, outcome |-> "data",
                                      value |-> parsePayload(decrypted.returned),
                                      changed |->
                                          logs # parsePayload(decrypted.returned).logs]]
             /\ importData(parsePayload(decrypted.returned).habits,
                           parsePayload(decrypted.returned).logs)

\* signIn after the select: without a row it returns null with success
AuthProvider_signIn_row ==
    /\ pending.fn = "signIn"
    /\ pending.pc = "row"
    /\ pending' = NoCall
    /\ UNCHANGED <<callVars, sessionPassword, remote>>
    /\ \E delivered \in BOOLEAN :
         LET response == IF accepted(delivered, UserId)
                         THEN selectSingle(remote.rows, UserId)
                         ELSE [error |-> "Failed to fetch"]
         IN  IF "error" \in DOMAIN response
             THEN /\ auth' = [auth EXCEPT !.syncStatus = "success"]
                  /\ sync' = [sync EXCEPT !.ended =
                                [fn |-> "signIn", outcome |-> "null",
                                 norow |-> delivered,
                                 delivered |-> delivered]]
                  /\ UNCHANGED storeVars
             ELSE Pulled("signIn", pending.password, response.data)

\* SyncModal.handlePush, whose button is there for a user: pushData
\* encrypts the exported snapshot and sends the upsert
SyncModal_handlePush ==
    /\ pending = NoCall
    /\ auth.user # None
    /\ sessionPassword # None
    /\ UNCHANGED <<storeVars, callVars, sessionPassword, remote>>
    /\ \E random \in Draws :
         LET encrypted == encryptData(payloadOf(exportData.habits, exportData.logs),
                                      sessionPassword, random.salt, random.iv)
         IN  IF "thrown" \in DOMAIN encrypted
             THEN /\ auth' = [auth EXCEPT !.syncStatus = "error",
                                          !.syncError = encrypted.thrown]
                  /\ pending' = NoCall
                  /\ sync' = [sync EXCEPT
                                !.keyed = @ \cup {sessionPassword},
                                !.ended = [fn |-> "pushData", outcome |-> "threw"]]
             ELSE /\ auth' = Syncing
                  /\ pending' = [fn |-> "pushData", pc |-> "row",
                                 row |-> SyncRow(auth.user, encrypted.returned,
                                                 today),
                                 snapshot |-> exportData]
                  /\ sync' = [sync EXCEPT !.keyed = @ \cup {sessionPassword},
                                          !.ended = NoCall]

\* pushData after the upsert: its error is thrown
AuthProvider_pushData_row ==
    /\ pending.fn = "pushData"
    /\ UNCHANGED <<storeVars, callVars, sessionPassword>>
    /\ \E delivered \in BOOLEAN :
         IF accepted(delivered, pending.row.user_id)
         THEN /\ remote' = [remote EXCEPT !.rows = upsertRow(@, pending.row)]
              /\ auth' = Succeeded("pushData")
              /\ pending' = NoCall
              /\ sync' = [sync EXCEPT
                            !.lastWrite = [by |-> "pushData", row |-> pending.row,
                                           snapshot |-> pending.snapshot,
                                           replaced |-> remote.rows # {}],
                            !.ended = [fn |-> "pushData", outcome |-> "void",
                                       wrote |-> TRUE, delivered |-> TRUE]]
         ELSE /\ auth' = [auth EXCEPT !.syncStatus = "error",
                                      !.syncError = "Failed to fetch"]
              /\ pending' = NoCall
              /\ sync' = [sync EXCEPT !.ended =
                            [fn |-> "pushData", outcome |-> "threw",
                             delivered |-> delivered]]
              /\ UNCHANGED remote

\* SyncModal.handlePull, whose button is there for a user: pullData asks
\* for the row of the user
SyncModal_handlePull ==
    /\ pending = NoCall
    /\ auth.user # None
    /\ sessionPassword # None
    /\ UNCHANGED <<storeVars, callVars, sessionPassword, remote>>
    /\ auth' = Syncing
    /\ pending' = [fn |-> "pullData", pc |-> "row",
                   password |-> sessionPassword, user |-> auth.user]
    /\ sync' = [sync EXCEPT !.ended = NoCall]

\* handlePush and handlePull without a session password that end like a
\* call that threw
SyncModal_noPasswordError ==
    /\ pending = NoCall
    /\ auth.user # None
    /\ sessionPassword = None
    /\ \E handler \in {"handlePush", "handlePull"} :
         sync' = [sync EXCEPT !.ended =
                    [fn |-> handler,
                     outcome |-> "Session password not found. Please sign in again."]]
    /\ auth' = [auth EXCEPT !.syncStatus = "error",
                            !.syncError = sync'.ended.outcome]
    /\ UNCHANGED <<storeVars, callVars, sessionPassword, remote, pending>>

\* SyncModal.handlePush and handlePull without a session password: the
\* handler reports it and returns
SyncModal_noPassword ==
    /\ pending = NoCall
    /\ auth.user # None
    /\ sessionPassword = None
    /\ \E handler \in {"handlePush", "handlePull"} :
         sync' = [sync EXCEPT !.ended =
                    [fn |-> handler,
                     outcome |-> "Session password not found. Please sign in again."]]
    /\ UNCHANGED <<storeVars, callVars, auth, sessionPassword, remote, pending>>

\* pullData after the select: its error is thrown, also the one .single()
\* gives for no row
AuthProvider_pullData_row ==
    /\ pending.fn = "pullData"
    /\ pending' = NoCall
    /\ UNCHANGED <<callVars, sessionPassword, remote>>
    /\ \E delivered \in BOOLEAN :
         LET response == IF accepted(delivered, pending.user)
                         THEN selectSingle(remote.rows, pending.user)
                         ELSE [error |-> "Failed to fetch"]
         IN  IF "error" \in DOMAIN response
             THEN /\ auth' = [auth EXCEPT !.syncStatus = "error",
                                          !.syncError = response.error]
                  /\ sync' = [sync EXCEPT !.ended =
                                [fn |-> "pullData", outcome |-> "threw",
                                 norow |-> accepted(delivered, pending.user),
                                 delivered |-> delivered]]
                  /\ UNCHANGED storeVars
             ELSE Pulled("pullData", pending.password, response.data)

\* SyncModal.handleSignOut, whose button is there for a user: signOut asks
\* the service to end the session, and the auth state listener clears the
\* user when it has; the result of auth.signOut is not looked at
SyncModal_handleSignOut ==
    /\ pending = NoCall
    /\ auth.user # None
    /\ \E delivered \in BOOLEAN :
         /\ remote' = [remote EXCEPT !.session = IF delivered THEN None ELSE @]
         /\ auth' = [user |-> IF delivered THEN None ELSE auth.user,
                     syncStatus |-> "idle", lastSynced |-> "null",
                     syncError |-> "null"]
         /\ sync' = [sync EXCEPT !.ended = [fn |-> "signOut", outcome |-> "void",
                                            delivered |-> delivered],
                                 !.cached = [by |-> "none"]]
    /\ sessionPassword' = None
    /\ UNCHANGED <<storeVars, callVars, pending>>

\* exportData() of another install: the habits of a store have a status
ExportedSnapshots ==
    { [habits |-> migrateHabits(snapshot.habits), logs |-> snapshot.logs] :
        snapshot \in RemoteSnapshots }

\* another install signed in to the account pushes its snapshot
OtherInstall_pushData ==
    /\ remote.accounts # {}
    /\ \E account \in remote.accounts, snapshot \in ExportedSnapshots,
          random \in Draws :
         LET encrypted == encryptData(payloadOf(snapshot.habits, snapshot.logs),
                                      account.password, random.salt, random.iv)
             row == SyncRow(account.id, encrypted.returned, today)
         IN  /\ "returned" \in DOMAIN encrypted
             /\ remote' = [remote EXCEPT !.rows = upsertRow(@, row)]
             /\ sync' = [sync EXCEPT !.lastWrite =
                           [by |-> "other", row |-> row, snapshot |-> snapshot,
                            replaced |-> remote.rows # {}]]
    /\ UNCHANGED <<storeVars, callVars, auth, sessionPassword, pending>>

\* the store is used while signed in or not: the button of the first
\* habit of TodayView
SyncLocalEdit ==
    /\ habits # <<>>
    /\ habits[1].type = "good"
    /\ habits[1].status = "active"
    /\ toggleGoodHabit(habits[1].id, today)
    /\ UNCHANGED <<callVars, syncVars>>

SyncInit == Init

SyncNext ==
    \/ SyncModal_handleSignUp /\ UNCHANGED modalVars
    \/ AuthProvider_signUp_auth /\ UNCHANGED modalVars
    \/ AuthProvider_signUp_row /\ UNCHANGED modalVars
    \/ SyncModal_handleSignIn /\ UNCHANGED modalVars
    \/ AuthProvider_signIn_auth /\ UNCHANGED modalVars
    \/ AuthProvider_signIn_row /\ UNCHANGED modalVars
    \/ SyncModal_handlePush /\ UNCHANGED modalVars
    \/ AuthProvider_pushData_row /\ UNCHANGED modalVars
    \/ SyncModal_handlePull /\ UNCHANGED modalVars
    \/ AuthProvider_pullData_row /\ UNCHANGED modalVars
    \/ SyncModal_noPassword /\ UNCHANGED modalVars
    \/ SyncModal_handleSignOut /\ UNCHANGED modalVars
    \/ OtherInstall_pushData /\ UNCHANGED modalVars
    \/ SyncLocalEdit /\ UNCHANGED modalVars

SyncSpec == SyncInit /\ [][SyncNext]_vars

\* The sync protocol with what happens to the account and the page besides

\* the password of the account is changed on the service (a password
\* recovery, or the project's dashboard); the row stays as it is
Service_changePassword ==
    /\ pending = NoCall
    /\ remote.session = None
    /\ \E account \in remote.accounts :
         \E password \in SyncPasswords \ {account.password} :
            remote' = [remote EXCEPT !.accounts = {Account(password)}]
    /\ UNCHANGED <<storeVars, callVars, auth, sessionPassword, pending, sync,
                   modalVars>>

\* the page is loaded again: the module variable _sessionPassword starts
\* as null, AuthProvider restores the session the client has kept, and
\* HabitProvider loads the two keys
PageReload ==
    /\ pending = NoCall
    /\ sessionPassword' = None
    /\ auth' = [user |-> remote.session, syncStatus |-> "idle",
                lastSynced |-> "null", syncError |-> "null"]
    /\ sync' = [sync EXCEPT !.ended = NoCall, !.cached = [by |-> "none"]]
    /\ habits' = loadHabits(localStorage)
    /\ logs' = loadLogs(localStorage)
    /\ localStorage' = persisted(habits', logs')
    /\ lastOp' = Op("load", None, None)
    /\ prior' = NoPrior
    /\ UNCHANGED <<now, callVars, remote, pending, modalVars>>

ServiceInit == Init

ServiceNext ==
    \/ SyncNext
    \/ Service_changePassword
    \/ PageReload

ServiceSpec == ServiceInit /\ [][ServiceNext]_vars

\* The sync dialog with calls that overlap: a handler of SyncModal awaits its
\* call while the page goes on handling events, so a second handler can start
\* before the first call has ended.  The call a step is about is the one in
\* pending; parked holds the other call that awaits.

\* the event loop turns to other work while the call in pending awaits
AwaitCall ==
    /\ pending # NoCall
    /\ parked = NoCall
    /\ parked' = pending
    /\ pending' = NoCall
    /\ modal' = [modal EXCEPT !.mine = FALSE, !.parkedMine = modal.mine]
    /\ UNCHANGED <<storeVars, callVars, auth, sessionPassword, remote, sync>>

\* the answer to the call that awaited arrives
ResumeCall ==
    /\ pending = NoCall
    /\ parked # NoCall
    /\ pending' = parked
    /\ parked' = NoCall
    /\ modal' = [modal EXCEPT !.mine = modal.parkedMine, !.parkedMine = FALSE]
    /\ UNCHANGED <<storeVars, callVars, auth, sessionPassword, remote, sync>>

\* App: the sync button sets showSync, which mounts a SyncModal whose screen
\* starts from the user and whose loading starts false
App_setShowSync ==
    /\ ~modal.open
    /\ modal' = [modal EXCEPT
                   !.open = TRUE,
                   !.screen = IF auth.user # None THEN "synced" ELSE "home",
                   !.loading = FALSE]
    /\ UNCHANGED <<storeVars, callVars, syncVars, parked>>

\* the backdrop and the X button, which are never disabled: the dialog is
\* unmounted, and the handlers that still await belong to no dialog
SyncModal_onClose ==
    /\ modal.open
    /\ modal' = Unmounted
    /\ UNCHANGED <<storeVars, callVars, syncVars, parked>>

\* the buttons that change the screen, which are never disabled:
\* clearForm(); setScreen(...)
SyncModal_setScreen ==
    /\ modal.open
    /\ \E screen \in IF modal.screen = "home" THEN {"login", "signup"}
                     ELSE IF modal.screen \in {"login", "signup"} THEN {"home"}
                     ELSE {} :
          modal' = [modal EXCEPT !.screen = screen, !.loading = FALSE]
    /\ UNCHANGED <<storeVars, callVars, syncVars, parked>>

\* how a handler is started: the button (disabled while loading) or the
\* Enter key in the password field (PasswordField.onKeyDown)
Gestures == {"click", "Enter"}

\* a handler of the mounted dialog starts its call: setLoading(true)
Loading == [modal EXCEPT !.loading = TRUE, !.mine = TRUE]

\* the login screen: handleSignIn
Modal_handleSignIn ==
    /\ modal.open
    /\ modal.screen = "login"
    /\ \E gesture \in Gestures : gesture = "click" => ~modal.loading
    /\ SyncModal_handleSignIn
    /\ modal' = Loading
    /\ UNCHANGED parked

\* the signup screen: handleSignUp
Modal_handleSignUp ==
    /\ modal.open
    /\ modal.screen = "signup"
    /\ \E gesture \in Gestures : gesture = "click" => ~modal.loading
    /\ SyncModal_handleSignUp
    /\ modal' = Loading
    /\ UNCHANGED parked

\* the buttons of the synced screen, which is rendered with a user:
\* disabled={loading || syncStatus === 'syncing'}
transferEnabled ==
    /\ modal.open
    /\ modal.screen = "synced"
    /\ auth.user # None
    /\ ~(modal.loading \/ auth.syncStatus = "syncing")

Modal_handlePush ==
    /\ transferEnabled
    /\ SyncModal_handlePush
    /\ modal' = Loading
    /\ UNCHANGED parked

Modal_handlePull ==
    /\ transferEnabled
    /\ SyncModal_handlePull
    /\ modal' = Loading
    /\ UNCHANGED parked

\* the Sign Out button of the synced screen, which has no disabled
\* attribute: await signOut(); clearForm(); setScreen('home')
Modal_handleSignOut ==
    /\ modal.open
    /\ modal.screen = "synced"
    /\ SyncModal_handleSignOut
    /\ modal' = [modal EXCEPT !.loading = FALSE, !.screen = "home"]
    /\ UNCHANGED parked

\* a step of the call in pending, and what the handler that awaits it does
\* when it ends: after signUp and signIn, clearForm(); setScreen('synced');
\* in every handler, finally setLoading(false).  A handler of a dialog that
\* was unmounted sets the state of no dialog
Modal_continue(step) ==
    /\ step
    /\ modal' = IF pending' # NoCall \/ ~modal.mine
                THEN [modal EXCEPT !.mine = pending' # NoCall /\ @]
                ELSE [modal EXCEPT
                        !.mine = FALSE,
                        !.loading = FALSE,
                        !.screen = IF /\ pending.fn \in {"signUp", "signIn"}
                                      /\ sync'.ended.outcome # "threw"
                                   THEN "synced"
                                   ELSE @]
    /\ UNCHANGED parked

ModalInit == Init

ModalNext ==
    \/ App_setShowSync
    \/ SyncModal_onClose
    \/ SyncModal_setScreen
    \/ Modal_handleSignUp
    \/ Modal_handleSignIn
    \/ Modal_handlePush
    \/ Modal_handlePull
    \/ Modal_handleSignOut
    \/ Modal_continue(AuthProvider_signUp_auth)
    \/ Modal_continue(AuthProvider_signUp_row)
    \/ Modal_continue(AuthProvider_signIn_auth)
    \/ Modal_continue(AuthProvider_signIn_row)
    \/ Modal_continue(AuthProvider_pushData_row)
    \/ Modal_continue(AuthProvider_pullData_row)
    \/ AwaitCall
    \/ ResumeCall

ModalSpec == ModalInit /\ [][ModalNext]_vars

----------------------------------------------------------------------------
(* Properties *)

\* the days the properties ask scores for: the calendar's days and one day
\* after them, which is never today and never logged
QueryDays == Days \cup {3}

QueryDates == { format(n) : n \in QueryDays }

hasLogs(ls, date) == \E l \in Range(ls) : l.date = date

\* C1: for every date (past, today or future) that no log has,
\* calculateDayScore returns exactly 0, whatever habits exist
C1_NoLogsScoreZero ==
    \A n \in QueryDays :
        ~hasLogs(logs, format(n)) => calculateDayScore(format(n)) = 0

\* a past date without logs while a bad habit is in the store and other
\* dates are logged: the day the avoided bonus must not be granted for
C1_Witness ==
    \E n \in QueryDays :
        /\ ~hasLogs(logs, format(n))
        /\ n < now
        /\ \E h \in Range(habits) : h.type = "bad"
        /\ logs # <<>>

\* floor(points * 0.4) as the claim words it: the greatest integer not
\* above four tenths of points
FloorOf40Percent(points) ==
    CHOOSE k \in 0..points : 10 * k <= 4 * points /\ 4 * points < 10 * (k + 1)

\* what the claim says the habit h contributes to the score of day n
claimedContribution(h, n) ==
    IF h.type = "good"
    THEN IF isGoodHabitDone(logs, h.id, format(n)) THEN h.points ELSE 0
    ELSE IF isBadHabitIndulged(logs, h.id, format(n)) THEN 0 - h.points
         ELSE IF n < now THEN FloorOf40Percent(h.points) ELSE 0

RECURSIVE claimedSum(_, _)
claimedSum(I, n) ==
    IF I = {} THEN 0
    ELSE LET i == CHOOSE x \in I : TRUE
         IN  claimedContribution(habits[i], n) + claimedSum(I \ {i}, n)

\* C2: on a date that has a log, calculateDayScore is the unclamped sum over
\* all habits of the store, whatever their status, of +points (good, done),
\* -points (bad, indulged), +floor(points*0.4) (bad, not indulged, date
\* before today) and 0 otherwise
C2_ScoreIsSumOverAllHabits ==
    \A n \in QueryDays :
        hasLogs(logs, format(n)) =>
            calculateDayScore(format(n)) = claimedSum(1..Len(habits), n)

\* Exercise (20) done on a past date and Smoking (25), no longer active, not
\* indulged on it: 20 + 10 = 30
C2_Witness ==
    \E n \in Days : LET d == format(n) IN
        /\ n < now
        /\ \E h \in Range(habits) :
              h.name = "Exercise" /\ h.points = 20 /\ isGoodHabitDone(logs, h.id, d)
        /\ \E h \in Range(habits) :
              /\ h.name = "Smoking" /\ h.points = 25 /\ h.status # "active"
              /\ ~isBadHabitIndulged(logs, h.id, d)
        /\ calculateDayScore(d) = 30

\* a step taken by archiveHabit, deleteHabit or unarchiveHabit on the habit
\* `id` (what the operation leaves in lastOp is looked at first)
StatusStep(id) ==
    /\ lastOp'.id = id
    /\ \/ lastOp'.op = "archiveHabit" /\ archiveHabit(id)
       \/ lastOp'.op = "deleteHabit" /\ deleteHabit(id)
       \/ lastOp'.op = "unarchiveHabit" /\ unarchiveHabit(id)

\* C3: archiveHabit, deleteHabit and unarchiveHabit leave calculateDayScore
\* of every date and getTotalScore exactly as they were
C3_HistoryStable ==
    [][\A h \in Range(habits) : StatusStep(h.id) =>
        /\ \A d \in QueryDates :
              dayScore(habits', logs', format(now'), d) = calculateDayScore(d)
        /\ totalScore(habits', logs', format(now')) = getTotalScore]_vars

\* a status operation has just acted on a habit whose log counts in the
\* score of its date
C3_Witness ==
    /\ lastOp.op \in {"archiveHabit", "deleteHabit", "unarchiveHabit"}
    /\ \E l \in Range(logs) :
          /\ l.habitId = lastOp.id
          /\ calculateDayScore(l.date) # 0
          /\ getTotalScore # 0

triple(l) == <<l.habitId, l.date, l.action>>

Triples(ls) == { triple(l) : l \in Range(ls) }

\* a step taken by one of the toggles on a triple that has a log
ToggleOffStep ==
    /\ lastOp'.op \in {"toggleGoodHabit", "toggleBadHabit"}
    /\ \E l \in Range(logs) :
          \/ l.action = "done" /\ toggleGoodHabit(l.habitId, l.date)
          \/ l.action = "indulged" /\ toggleBadHabit(l.habitId, l.date)

\* C4: the log array never holds two logs with the same (habitId, date,
\* action), and a toggle on a triple that has a log removes that log
\* instead of adding a second one
C4_OneLogPerTriple ==
    /\ [](\A i, j \in 1..Len(logs) : triple(logs[i]) = triple(logs[j]) => i = j)
    /\ [][ToggleOffStep =>
            /\ Len(logs') = Len(logs) - 1
            /\ <<lastOp'.id, lastOp'.date,
                 IF lastOp'.op = "toggleGoodHabit" THEN "done" ELSE "indulged">>
                   \notin Triples(logs')]_vars

\* a toggle has just removed the log of its triple and left another one
C4_Witness ==
    /\ lastOp.op \in {"toggleGoodHabit", "toggleBadHabit"}
    /\ Len(logs) = Len(prior.logs) - 1
    /\ logs # <<>>

\* C5: toggleGoodHabit(h, d) twice in a row, and toggleBadHabit(h, d) twice
\* in a row, restore the set of (habitId, date, action) triples, the score
\* of every date and the total score
C5_ToggleRoundTrip ==
    prior.n = 2 =>
        /\ Triples(logs) = Triples(prior.logs)
        /\ \A d \in QueryDates :
              calculateDayScore(d) = dayScore(habits, prior.logs, today, d)
        /\ getTotalScore = totalScore(habits, prior.logs, today)

\* the same toggle has acted twice: it removed a log that counted and put
\* it back, beside the log of another date
C5_Witness ==
    /\ prior.n = 2
    /\ Len(prior.logs) = 2
    /\ logs # prior.logs
    /\ calculateDayScore(lastOp.date) # 0

\* a step taken by permanentlyDeleteHabit on the habit `id`
PermanentStep(id) ==
    /\ lastOp'.op = "permanentlyDeleteHabit"
    /\ permanentlyDeleteHabit(id)

\* the dates all of whose logs reference the habit `id`
datesOnlyOf(ls, id) ==
    { d \in QueryDates :
        hasLogs(ls, d) /\ \A l \in Range(ls) : l.date = d => l.habitId = id }

\* C6: after permanentlyDeleteHabit(id) neither the habit nor any log of it
\* is left (no log is ever left without its habit), the logs of the other
\* habits are as before, and every date whose logs all referenced the habit
\* scores 0 and is no longer among the dates of the total
C6_PermanentDeleteCascades ==
    /\ [](\A l \in Range(logs) : \E h \in Range(habits) : h.id = l.habitId)
    /\ [][\A h \in Range(habits) : PermanentStep(h.id) =>
            /\ \A g \in Range(habits') : g.id # h.id
            /\ \A l \in Range(logs') : l.habitId # h.id
            /\ logs' = SelectSeq(logs, LAMBDA l : l.habitId # h.id)
            /\ habits' = SelectSeq(habits, LAMBDA g : g.id # h.id)
            /\ \A d \in datesOnlyOf(logs, h.id) :
                  /\ dayScore(habits', logs', format(now'), d) = 0
                  /\ ~hasLogs(logs', d)]_vars

\* permanentlyDeleteHabit has just removed a habit that alone was logged on
\* some date, and the log of another habit is still there
C6_Witness ==
    /\ lastOp.op = "permanentlyDeleteHabit"
    /\ datesOnlyOf(prior.logs, lastOp.id) # {}
    /\ logs # <<>>
    /\ Len(logs) < Len(prior.logs)

RECURSIVE sumOfDayScores(_)
sumOfDayScores(D) ==
    IF D = {} THEN 0
    ELSE LET d == CHOOSE x \in D : TRUE
         IN  calculateDayScore(d) + sumOfDayScores(D \ {d})

\* C7: getTotalScore is the sum of calculateDayScore over the distinct
\* dates of the log array, each counted once
C7_TotalIsSumOverDistinctDates ==
    getTotalScore = sumOfDayScores({ l.date : l \in Range(logs) })

\* two logs on one date whose score is not 0
C7_Witness ==
    /\ \E i, j \in 1..Len(logs) : i # j /\ logs[i].date = logs[j].date
    /\ getTotalScore # 0

\* what the habit h contributes to calculateDayScore(d): the score with h
\* in the store less the score without it
contribution(h, d) ==
    calculateDayScore(d)
      - dayScore(SelectSeq(habits, LAMBDA g : g.id # h.id), logs, today, d)

\* C8 as stated: a bad habit without an indulged log on d contributes
\* floor(points*0.4) when d is before today and 0 when d is today or later
C8_AsStated ==
    \A h \in Range(habits), n \in QueryDays :
        (h.type = "bad" /\ ~isBadHabitIndulged(logs, h.id, format(n))) =>
            contribution(h, format(n)) =
                IF n < now THEN FloorOf40Percent(h.points) ELSE 0

\* C8 amended: a bad habit without an indulged log on d contributes
\* floor(points*0.4) when d is before today and has at least one log, and 0
\* when d has no log at all or is today or later
C8_AvoidedBonus ==
    \A h \in Range(habits), n \in QueryDays :
        (h.type = "bad" /\ ~isBadHabitIndulged(logs, h.id, format(n))) =>
            contribution(h, format(n)) =
                IF n < now /\ hasLogs(logs, format(n))
                THEN FloorOf40Percent(h.points) ELSE 0

\* a bad habit not indulged on a logged past date, and today logged too
C8_Witness ==
    \E h \in Range(habits), n \in Days : LET d == format(n) IN
        /\ h.type = "bad"
        /\ ~isBadHabitIndulged(logs, h.id, d)
        /\ n < now
        /\ hasLogs(logs, d)
        /\ hasLogs(logs, today)
        /\ contribution(h, d) = 10
        /\ contribution(h, today) = 0

\* the status a habit had before a step and the one it has after it, for
\* every habit whose status the step changed
statusChanges ==
    { <<p[1].status, p[2].status>> :
        p \in { q \in Range(habits) \X Range(habits') :
                  q[1].id = q[2].id /\ q[1].status # q[2].status } }

\* the habits a step put into the store
created == { g \in Range(habits') : \A h \in Range(habits) : h.id # g.id }

\* C9 as stated: a habit is created active and its status only changes
\* along active->archived, active->deleted, archived->active and
\* deleted->active, never archived->deleted or deleted->archived
C9_AsStated ==
    [][statusChanges \subseteq
          { <<"active", "archived">>, <<"active", "deleted">>,
            <<"archived", "active">>, <<"deleted", "active">> }]_vars

\* a step taken by one of the handlers of the Habits manager
ManagerStep ==
    /\ lastOp'.op \in {"addHabit", "archiveHabit", "deleteHabit",
                       "unarchiveHabit", "permanentlyDeleteHabit"}
    /\ \/ AddHabitSheet_handleSubmit
       \/ HabitRow_handleArchive
       \/ HabitRow_confirmDelete
       \/ HabitRow_handleUnarchive
       \/ HabitRow_confirmPermanent

\* C9 amended: a habit is created active, and the operations of the Habits
\* manager change a status only along active->archived, active->deleted,
\* archived->active, deleted->active and archived->deleted (the soft delete
\* of an archived row); none moves a habit from deleted to archived
C9_Lifecycle ==
    [][ManagerStep =>
        /\ statusChanges \subseteq
              { <<"active", "archived">>, <<"active", "deleted">>,
                <<"archived", "active">>, <<"deleted", "active">>,
                <<"archived", "deleted">> }
        /\ \A g \in created : g.status = "active"]_vars

\* deleteHabit has just moved an archived habit to deleted
C9_Witness ==
    /\ lastOp.op = "deleteHabit"
    /\ lastOp.was = "archived"
    /\ statusOf(habits, lastOp.id) = "deleted"

\* identifiers no habit of the store has
absentIds ==
    ({<<"h", 1>>} \cup { <<"u", k>> : k \in 1..(MaxAdded + 1) })
        \ { h.id : h \in Range(habits) }

\* hs and gs differ at most in the status of the habit `id`
sameButStatusOf(hs, gs, id) ==
    /\ Len(gs) = Len(hs)
    /\ \A i \in 1..Len(hs) :
          IF hs[i].id = id
          THEN [gs[i] EXCEPT !.status = hs[i].status] = hs[i]
          ELSE gs[i] = hs[i]

\* C10: archiveHabit, deleteHabit and unarchiveHabit change nothing but the
\* status of the habit they name: the logs, the other habits and the other
\* fields of that habit stay, and with an id no habit has nothing changes
C10_StatusOnly ==
    /\ [](\A id \in absentIds :
             /\ archiveIn(habits, id) = habits
             /\ softDeleteIn(habits, id) = habits
             /\ unarchiveIn(habits, id) = habits)
    /\ [][\A h \in Range(habits) : StatusStep(h.id) =>
            /\ logs' = logs
            /\ now' = now
            /\ sameButStatusOf(habits, habits', h.id)]_vars

\* archiveHabit has just acted on one of two habits while logs exist
C10_Witness ==
    /\ lastOp.op = "archiveHabit"
    /\ statusOf(habits, lastOp.id) = "archived"
    /\ \E h \in Range(habits) : h.id # lastOp.id /\ h.status # "archived"
    /\ logs # <<>>

\* the positions in habits of the non-archived habits of a type for which
\* a log with the action exists on day n
loggedOn(type, action, n) ==
    { i \in 1..Len(habits) :
        /\ habits[i].type = type
        /\ habits[i].status # "archived"
        /\ \E l \in Range(logs) :
              l.date = format(n) /\ l.habitId = habits[i].id /\ l.action = action }

\* the positions in habits of the non-archived bad habits
shownBad == { i \in 1..Len(habits) :
                habits[i].type = "bad" /\ habits[i].status # "archived" }

\* a step taken by archiveHabit on the habit `id`
ArchiveStep(id) ==
    /\ lastOp'.op = "archiveHabit"
    /\ archiveHabit(id)

levelOf(score) ==
    { level \in {"excellent", "great", "good", "ok", "neutral",
                 "slightly-bad", "bad", "very-bad"} :
        \/ level = "excellent" /\ score >= 40
        \/ level = "great" /\ score \in 20..39
        \/ level = "good" /\ score \in 10..19
        \/ level = "ok" /\ score \in 1..9
        \/ level = "neutral" /\ score = 0
        \/ level = "slightly-bad" /\ score \in -9..-1
        \/ level = "bad" /\ score \in -19..-10
        \/ level = "very-bad" /\ score <= -20 }

\* C12: getScoreLevel returns for every integer score the one category
\* whose range holds it: >= 40 excellent, 20..39 great, 10..19 good, 1..9
\* ok, 0 neutral, -9..-1 slightly-bad, -19..-10 bad, <= -20 very-bad
C12_ScoreLevel ==
    call.fn = "getScoreLevel" =>
        /\ "returned" \in DOMAIN result
        /\ levelOf(call.args[1]) = {result.returned}

\* getScoreLevel has been applied to the boundary -10
C12_Witness ==
    /\ call = Call("getScoreLevel", <<-10>>)
    /\ result = Returned("bad")

\* the snapshots importData can be given in a state
Importable == RemoteSnapshots \cup {exportData}

\* a step taken by importData with the habits and logs of `snapshot`
ImportStep(snapshot) ==
    /\ lastOp'.op = "importData"
    /\ importData(snapshot.habits, snapshot.logs)

\* g is the habit h with status active when h has no status
migrated(h, g) ==
    /\ DOMAIN g = DOMAIN h \cup {"status"}
    /\ \A f \in DOMAIN h : g[f] = h[f]
    /\ "status" \notin DOMAIN h => g.status = "active"

\* C13: importData(habits, logs) leaves exactly the given habits, each
\* with the status it has or active when it has none, and exactly the given
\* logs; the persisted copies are those arrays; and importing what
\* exportData returns changes nothing
C13_ImportReplaces ==
    [][\A snapshot \in Importable : ImportStep(snapshot) =>
        /\ Len(habits') = Len(snapshot.habits)
        /\ \A i \in 1..Len(habits') : migrated(snapshot.habits[i], habits'[i])
        /\ logs' = snapshot.logs
        /\ JSONparse(localStorage'.ht_habits_v3) = habits'
        /\ JSONparse(localStorage'.ht_logs_v2) = logs'
        /\ snapshot = exportData =>
              /\ habits' = habits
              /\ logs' = logs
              /\ localStorage' = localStorage]_vars

\* importData has just installed a snapshot with a habit that had no status
C13_Witness ==
    /\ lastOp.op = "importData"
    /\ \E snapshot \in RemoteSnapshots :
          /\ \E h \in Range(snapshot.habits) : "status" \notin DOMAIN h
          /\ logs = snapshot.logs
          /\ Len(habits) = Len(snapshot.habits)
          /\ habits[1].status = "active"

\* C14 as stated: for every plaintext and password encryptData returns a
\* bundle, and decryptData of that bundle with the same password returns
\* exactly the plaintext
C14_AsStated ==
    /\ call.fn = "encryptData" => "returned" \in DOMAIN result
    /\ (call.fn = "decryptData" /\ call.edit.kind = "none"
          /\ call.args[2] = call.sealed[2]) =>
            result = Returned(call.sealed[1])

\* p and q are the same string but for which lone surrogates they hold
sameButSurrogates(p, q) ==
    /\ Len(p) = Len(q)
    /\ \A i \in 1..Len(p) :
          p[i] = q[i] \/ (p[i] \in LoneSurrogates /\ q[i] \in LoneSurrogates)

\* C15 as stated: decryptData of a bundle of encryptData with another
\* password, or with a modified ciphertext, salt or iv, ends in an error
C15_AsStated ==
    (call.fn = "decryptData"
       /\ (call.args[2] # call.sealed[2] \/ call.edit.kind # "none")) =>
        "thrown" \in DOMAIN result

\* C15 amended: decryptData of a bundle of encryptData ends in an error
\* when the password differs from the one used in more than its lone
\* surrogates, or when the ciphertext, salt or iv is no base64 or decodes
\* to other bytes than the field encryptData made
C15_FailsClosed ==
    (call.fn = "decryptData"
       /\ (\/ ~sameButSurrogates(call.args[2], call.sealed[2])
           \/ call.edit.kind \in {"altered", "garbled"})) =>
        "thrown" \in DOMAIN result

\* decryptData has just refused the bundle under another password
C15_Witness ==
    /\ call.fn = "decryptData"
    /\ call.edit.kind = "none"
    /\ call.args[2] # call.sealed[2]
    /\ call.sealed[1] # <<>>
    /\ result = Thrown("OperationError")

\* C16 as stated: the password that keys encryptData and decryptData is in
\* no request to the remote service and in no remote row.  (signUp and
\* signIn send it as the password of the account.)
C16_AsStated ==
    /\ \A row \in remote.rows, password \in sync.keyed :
          /\ row.ciphertext.base64 # password
          /\ row.salt.base64 # password
          /\ row.iv.base64 # password
    /\ sync.sent \cap sync.keyed = {}

\* the { ciphertext, salt, iv } of a row
bundleOf(row) == [ciphertext |-> row.ciphertext, salt |-> row.salt, iv |-> row.iv]

\* C17: the remote store holds at most one row per account; the row holds
\* the account, a date and a bundle that encryptData returns for the
\* snapshot of the last write that completed, and is the row of that write;
\* without a completed write there is no row
C17_OneRowLastWrite ==
    /\ remote.rows = {} <=> sync.lastWrite.by = "none"
    /\ \A row \in remote.rows :
          /\ row.user_id \in { account.id : account \in remote.accounts }
          /\ DOMAIN row = {"user_id", "ciphertext", "salt", "iv", "updated_at"}
    /\ \A account \in remote.accounts :
          /\ Cardinality(rowsOf(remote.rows, account.id)) <= 1
          /\ \A row \in rowsOf(remote.rows, account.id) :
                /\ row = sync.lastWrite.row
                /\ \E random \in Draws :
                      Returned(bundleOf(row)) =
                          encryptData(payloadOf(sync.lastWrite.snapshot.habits,
                                                sync.lastWrite.snapshot.logs),
                                      account.password, random.salt, random.iv)

\* pushData has replaced the row of the account by one with a logged day
C17_Witness ==
    /\ sync.ended.fn = "pushData"
    /\ sync.lastWrite.by = "pushData"
    /\ sync.lastWrite.replaced
    /\ sync.lastWrite.snapshot.logs # <<>>
    /\ remote.rows = {sync.lastWrite.row}

\* pullData takes the answer to its select
PullStep ==
    /\ pending.fn = "pullData"
    /\ pending' = NoCall

\* C18: when the last write to the row that completed is a pushData of this
\* install, a pullData that gets an answer returns { habits, logs } as
\* pushed, and after the import the store holds the pushed habits and logs
C18_PushPullRoundTrip ==
    [][ PullStep /\ sync.lastWrite.by = "pushData"
            /\ auth'.syncError # "Failed to fetch"
        => /\ sync'.ended.outcome = "data"
           /\ sync'.ended.value = sync.lastWrite.snapshot
           /\ auth'.syncStatus = "success"
           /\ habits' = sync.lastWrite.snapshot.habits
           /\ logs' = sync.lastWrite.snapshot.logs
           /\ localStorage' = persisted(habits', logs') ]_vars

\* pullData has returned a pushed snapshot with a logged day, and the
\* import has replaced other logs
C18_Witness ==
    /\ sync.ended.fn = "pullData"
    /\ sync.ended.outcome = "data"
    /\ sync.ended.changed
    /\ sync.lastWrite.by = "pushData"
    /\ sync.ended.value = sync.lastWrite.snapshot
    /\ logs # <<>>
    /\ logs = sync.lastWrite.snapshot.logs

\* C19 as stated: a signUp that ends has written the row of the account
\* and ends with success and a new lastSynced, or it has written none and
\* ends with the error status.  (The result of the insert is not read.)
C19_AsStated ==
    sync.ended.fn = "signUp" =>
        IF sync.ended.outcome = "void"
        THEN /\ auth.syncStatus = "success"
             /\ auth.lastSynced = "signUp"
             /\ sync.ended.wrote
             /\ rowsOf(remote.rows, UserId) # {}
        ELSE auth.syncStatus = "error"

\* the select of signIn or pullData is answered, and there is no row
NoRowStep ==
    /\ pending.fn \in {"signIn", "pullData"}
    /\ pending.pc = "row"
    /\ "norow" \in DOMAIN sync'.ended
    /\ sync'.ended.norow

\* C20 as stated: signIn and pullData that find no row of the account
\* return null, do not set the error status, and leave habits and logs as
\* they are.  (pullData throws the error .single() gives for no row.)
C20_AsStated ==
    /\ []( "norow" \in DOMAIN sync.ended /\ sync.ended.norow
            => /\ sync.ended.outcome = "null"
               /\ auth.syncStatus # "error" )
    /\ [][ NoRowStep => UNCHANGED <<habits, logs, localStorage>> ]_vars

\* C30 as stated: for a date without logs getDayDetails reports no habit
\* done, indulged or avoided and the score 0.  (badAvoided counts every
\* non-archived bad habit on a past date without logs.)
C30_AsStated ==
    \A d \in QueryDates :
        (\A l \in Range(logs) : l.date # d)
            => getDayDetails(d) = [goodDone |-> 0, badIndulged |-> 0,
                                   badAvoided |-> 0, score |-> 0]

\* a key of the storage is there and does not parse
loadFails(storage, key) == storage[key] # "null" /\ ~parses(storage[key])

\* C25 as stated: when reading a key fails the provider starts with the
\* default habits and no logs, so it has logs only if the habits were
\* loaded.  (Each key falls back on its own.)
C25_AsStated ==
    call.fn = "HabitProvider" =>
        LET storage == call.args[1]
            failed == \E key \in DOMAIN storage : loadFails(storage, key)
            loaded == storage.ht_habits_v3 # "null"
                        /\ ~loadFails(storage, "ht_habits_v3")
        IN  /\ "returned" \in DOMAIN result
            /\ failed => /\ result.returned.habits = DEFAULT_HABITS
                         /\ result.returned.logs = <<>>
            /\ result.returned.logs # <<>> => loaded

\* a step of signOut
SignOutStep == sync'.ended.fn = "signOut" /\ sync.ended.fn # "signOut"

\* C23 as stated: when signOut has ended, the session password is null,
\* the remote session is ended, syncStatus is idle and lastSynced and
\* syncError are null, and the habits and logs, in memory and persisted, are
\* as before.  (A sign-out request that fails leaves the session, and
\* signOut does not look at the result.)
C23_AsStated ==
    /\ [](sync.ended.fn = "signOut"
            => /\ sessionPassword = None
               /\ remote.session = None
               /\ auth.syncStatus = "idle"
               /\ auth.lastSynced = "null"
               /\ auth.syncError = "null")
    /\ [][SignOutStep => UNCHANGED <<habits, logs, localStorage>>]_vars

\* C26 as stated: a call whose request on the row of the account failed ends
\* by throwing, with the error status; signIn returns null only when the
\* account has no row.  (signIn returns null with success when its select
\* failed, and signUp does not look at the result of its insert.)
C26_AsStated ==
    /\ sync.ended.fn \in {"signUp", "signIn", "pushData", "pullData"}
         /\ "delivered" \in DOMAIN sync.ended
         /\ ~sync.ended.delivered
       => /\ sync.ended.outcome = "threw"
          /\ auth.syncStatus = "error"
    /\ sync.ended.fn = "signIn" /\ sync.ended.outcome = "null"
       => /\ sync.ended.norow
          /\ rowsOf(remote.rows, UserId) = {}

WrongPassword == caughtMessage("signIn", OperationSpecific)

\* C21 as stated: signIn and pullData that cannot decrypt the row end by
\* throwing, with the error status and the one wrong-password message as
\* syncError, and no other failure gives that message.  (The message
\* depends on the text of the engine's error and differs between the two.)
C21_AsStated ==
    /\ "undecrypted" \in DOMAIN sync.ended
       => /\ sync.ended.outcome = "threw"
          /\ auth.syncStatus = "error"
          /\ auth.syncError = WrongPassword
    /\ auth.syncError = WrongPassword => "undecrypted" \in DOMAIN sync.ended

\* a step of a sync operation of the modal: of its call, or of the handler
SyncOperationStep == <<auth, sessionPassword, pending, sync.ended>>'
                        # <<auth, sessionPassword, pending, sync.ended>>

\* C22: a step of a sync operation changes habits, logs or the persisted
\* keys only when it ends a signIn or pullData that succeeds and returns
\* data, and then habits and logs are the returned ones and persisted; a
\* call that throws or returns no data leaves them as they are
C22_LocalFrame ==
    [][ SyncOperationStep
        => \/ UNCHANGED <<habits, logs, localStorage>>
           \/ /\ pending.fn \in {"signIn", "pullData"}
              /\ pending' = NoCall
              /\ sync'.ended.outcome = "data"
              /\ auth'.syncStatus = "success"
              /\ habits' = sync'.ended.value.habits
              /\ logs' = sync'.ended.value.logs
              /\ localStorage' = persisted(habits', logs') ]_vars

\* signIn has returned the snapshot of the account and the import has
\* replaced other logs, after a call that threw had left them
C22_Witness ==
    /\ sync.ended.fn = "signIn"
    /\ sync.ended.outcome = "data"
    /\ sync.ended.changed
    /\ habits = sync.ended.value.habits
    /\ logs = sync.ended.value.logs
    /\ logs # <<>>

\* handlePush or handlePull ends at once
ReportStep ==
    /\ sync'.ended # sync.ended
    /\ sync'.ended.fn \in {"handlePush", "handlePull"}

\* pushData or pullData is called
TransferStarts ==
    /\ pending = NoCall
    /\ pending'.fn \in {"pushData", "pullData"}

\* the password the call works with
usesPassword(c, password) ==
    IF c.fn = "pullData"
    THEN c.password = password
    ELSE "returned" \in DOMAIN decryptData(bundleOf(c.row), password)

\* handlePush and handlePull without a session password call nothing
NoPasswordNoCall ==
    /\ sessionPassword = None => ~TransferStarts
    /\ ReportStep
       => /\ sessionPassword = None
          /\ sync'.ended.outcome
                = "Session password not found. Please sign in again."
          /\ UNCHANGED <<auth, sessionPassword, remote, pending, habits, logs,
                         localStorage>>
          /\ sync' = [sync EXCEPT !.ended = sync'.ended]

\* C29 as stated: ... and every pushData and pullData of the modal works
\* with the password cached by the last signIn or signUp, which succeeded.
\* (The password is cached before the row is read, and stays when the call
\* then throws.)
C29_AsStated ==
    [][ /\ NoPasswordNoCall
        /\ TransferStarts
           => /\ sync.cached.by \in {"signIn", "signUp"}
              /\ sync.cached.ok
              /\ usesPassword(pending', sync.cached.password) ]_vars

\* C29: handlePush and handlePull without a session password read and
\* write nothing remote, call neither pushData nor pullData, leave
\* syncStatus, lastSynced, the rows and the local data as they are and
\* report 'Session password not found'; every pushData and pullData of the
\* modal works with the password cached by the last signIn or signUp that
\* passed authentication
C29_CachedPassword ==
    [][ /\ NoPasswordNoCall
        /\ TransferStarts
           => /\ sync.cached.by \in {"signIn", "signUp"}
              /\ sessionPassword = sync.cached.password
              /\ usesPassword(pending', sync.cached.password) ]_vars

\* the session was restored by a page load, the account has a row, and
\* handlePull has reported that there is no session password
C29_Witness ==
    /\ sync.ended.fn = "handlePull"
    /\ sync.cached.by = "none"
    /\ auth.user # None
    /\ sessionPassword = None
    /\ remote.rows # {}
    /\ auth.syncStatus = "idle"

\* a sync operation has started and has not ended
InFlight == pending # NoCall \/ parked # NoCall

\* signUp, signIn, pushData or pullData is called
CallStarts ==
    /\ pending = NoCall
    /\ pending' # NoCall
    /\ parked' = parked

\* C24 as stated: while a signUp, signIn, pushData or pullData has started
\* and has not ended, no click, Enter key, Sign Out, or closing and
\* reopening of the dialog starts a second sync operation or a signOut.
\* (The Enter key and the Sign Out button are not disabled while loading,
\* and a dialog that is opened again starts with loading false.)
C24_AsStated == [][ InFlight => ~CallStarts /\ ~SignOutStep ]_vars

\* the call in pending ends
CallEnds ==
    /\ pending # NoCall
    /\ pending' = NoCall
    /\ parked' = parked

\* C27 as stated: a sync operation sets syncStatus to syncing when it
\* starts and leaves it success or error however it ends; with no
\* operation in flight syncStatus is not syncing, and syncStatus is error
\* exactly when syncError is not null.  (A call that succeeds does not
\* clear the syncError that a call which overlapped it has set.)
C27_AsStated ==
    /\ [](~InFlight => auth.syncStatus # "syncing")
    /\ [](auth.syncStatus = "error" <=> auth.syncError # "null")
    /\ [][ CallStarts => auth'.syncStatus = "syncing" ]_vars
    /\ [][ CallEnds => auth'.syncStatus \in {"success", "error"} ]_vars

============================================================================
